---- MODULE Spec2Model ----
(***************************************************************************)
(* Camera session supervisor of neolink (src/common/neocam.rs).            *)
(*                                                                         *)
(* NeoCam::new builds four channels and a cancellation token, spawns the   *)
(* control loop task, the connection lifecycle worker (NeoCamThread) and   *)
(* the media fan-out worker (NeoCamStreamThread), and hands out            *)
(* NeoInstance handles.  NeoCamThread, NeoCamStreamThread and NeoInstance  *)
(* are defined in sibling modules of common/; their behaviour follows the  *)
(* specification document, sections 4.2, 4.3 and 4.4.                      *)
(*                                                                         *)
(* The RTSP media factory (src/rtsp/factory.rs) is modelled next to it:    *)
(* the callback make_factory installs, the client channel it feeds and     *)
(* the u32 arithmetic of buffer_size.  FactorySpec runs that part alone.   *)
(***************************************************************************)
EXTENDS Integers, Sequences, FiniteSets, TLC

(* ---------------------------- bounds ----------------------------------- *)
\* capacity used for the command queue, mpsc(100) in the source
CommanderCap == 2
\* capacity used for the fan-out request queue, mpsc(100) in the source
StreamCap == 1
\* concurrent callers of shutdown()
NumShutdown == 2
\* operations invoked by the users of the session (calls on the NeoCam and
\* on its handles)
MaxOps == 4
\* capacity used for the client channel of the media factory, mpsc(100) in
\* the source
ClientCap == 1
\* pipelines the media factory is asked to construct
MaxBuilds == 2
\* bitrates tried on either side of each edge of buffer_size
Spread == 2

(* ---------------------------- constants of the program ----------------- *)
\* capacity of the command queue: mpsc(100)
CommanderCapacity == 100
Configs == { [id |-> 1, strict |-> TRUE], [id |-> 2, strict |-> FALSE] }
Tracks == { "Main", "Sub" }
Callers == 1 .. NumShutdown
\* reply slots (oneshot channels): 1 and 2 belong to NeoCam::new, every
\* operation of a user takes at most one more
MaxReq == MaxOps + 2
Slots == 1 .. MaxReq
\* handles: 1 and 2 are created inside NeoCam::new, every operation of a
\* user creates at most one more
MaxInst == MaxOps + 2
Insts == 1 .. MaxInst
Absent == 0

VARIABLES
  cancel,          \* me.cancel: TRUE once the CancellationToken is cancelled
  config_watch,    \* value held by the config watch channel
  strict,          \* config.strict captured by the control loop
  commander,       \* content of the command queue (commander_tx -> commander_rx)
  stream_request,  \* content of the fan-out request queue
  camera_watch,    \* connection-state cell: Absent or the published connection
  newPc,           \* position of NeoCam::new
  ctlPc,           \* position of the control loop task
  fwdReq,          \* StreamRequest the control loop is trying to forward
  camPc,           \* state of the lifecycle worker
  attemptCfg,      \* configuration read when the current attempt began
  liveConns,       \* connection objects alive (the configuration of each)
  streamPc,        \* state of the fan-out worker
  reply,           \* state of every oneshot reply slot
  inst,            \* the handles (NeoInstance) created so far
  shutPc,          \* position of every shutdown() caller
  supDropped,      \* TRUE once the NeoCam has been dropped
  ops,             \* number of operations the users have invoked
  updateRes,       \* result of the last update_config call, and the id of the
                   \* configuration passed last (to new or to update_config)
  subRes,          \* result of the last NeoCam::subscribe call
  accepted,        \* history: number of commands accepted into the queue
  served,          \* history: arrival number of the command served last
  attemptLatest,   \* history: the configuration passed last when the current
                   \* attempt began
  stream_config,   \* StreamConfig cloned into the factory callback
  overflow_checks, \* TRUE when the build panics on integer overflow
  client_rx,       \* ClientData buffered in the client channel
  client_open,     \* FALSE once the receiver of the client channel is gone
  media            \* the factory callback's runs: how many, and the last outcome

vars == << cancel, config_watch, strict, commander, stream_request,
           camera_watch, newPc, ctlPc, fwdReq, camPc, attemptCfg, liveConns,
           streamPc, reply, inst, shutPc, supDropped, ops, updateRes, subRes,
           accepted, served, attemptLatest, stream_config, overflow_checks,
           client_rx, client_open, media >>

(* ---------------------------- commands --------------------------------- *)
HangUp == [type |-> "HangUp", slot |-> 0, name |-> "-"]
Instance(s) == [type |-> "Instance", slot |-> s, name |-> "-"]
Stream(t, s) == [type |-> "Stream", slot |-> s, name |-> t]

\* a queued command, tagged with its arrival number
Queued(c, n) == [cmd |-> c, no |-> n]
\* variant of StreamRequest: the flag is read from the configuration now held
\* by config_watch
StreamRequestCurrentConfig(c) ==
  [name |-> c.name, sender |-> c.slot, strict |-> config_watch.strict]

StreamRequest(c) == [name |-> c.name, sender |-> c.slot, strict |-> strict]

RECURSIVE SlotsOf(_)
SlotsOf(q) ==
  IF q = << >> THEN {}
  ELSE (IF Head(q).cmd.slot # 0 THEN {Head(q).cmd.slot} ELSE {})
         \cup SlotsOf(Tail(q))

RECURSIVE SendersOf(_)
SendersOf(q) ==
  IF q = << >> THEN {} ELSE {Head(q).sender} \cup SendersOf(Tail(q))

\* a oneshot sender that is dropped without a value closes the channel
DropSenders(r, S) ==
  [s \in Slots |-> IF s \in S /\ r[s] = "pending" THEN "dropped" ELSE r[s]]

(* ---------------------------- handles ---------------------------------- *)
\* variant of InstanceArmEnds: the arm gives each handle a cell of its own,
\* made with watch(Weak::new()) like the one of NeoCam::new
InstanceArmEndsOwnCell ==
  [watch |-> "own_watch_rx", commander |-> "commander_tx", cancel |-> "cancel"]

\* the three values the control loop passes to NeoInstance::new
InstanceArmEnds ==
  [watch |-> "camera_watch_rx", commander |-> "commander_tx", cancel |-> "cancel"]

\* variant of SubscribeEnds: the handle gets a token derived from me.cancel
SubscribeEndsChildToken ==
  [watch |-> "camera_watch_rx", commander |-> "commander_tx",
   cancel |-> "cancel.child_token"]

\* the three values NeoCam::subscribe passes to NeoInstance::new
SubscribeEnds ==
  [watch |-> "camera_watch_rx", commander |-> "commander_tx", cancel |-> "cancel"]

\* NeoInstance::new keeps the triple it is given and does not fail
NeoInstanceNew(ends) == [ok |-> TRUE, st |-> "live", ends |-> ends]

NoInst == [ok |-> FALSE, st |-> "none", ends |-> InstanceArmEnds]

FreeInsts == { h \in Insts : h > 2 /\ inst[h].st = "none" }
FreeSlots == { s \in Slots : s > 2 /\ reply[s] = "unused" }

\* the handle a fulfilled Instance request delivers: 1 and 2 to NeoCam::new
InstFor(s) == IF s <= 2 THEN s ELSE CHOOSE h \in FreeInsts : \A g \in FreeInsts : h <= g

(* ---------------------------- channel ends ----------------------------- *)
\* get_connection on a handle: a snapshot of the value now held by the cell
\* its receiver belongs to; a cell nobody publishes to stays at Weak::new()
GetConnection(h) ==
  IF inst[h].ends.watch = "camera_watch_rx" THEN camera_watch ELSE Absent

\* variant of CommanderOpen: commander_rx is kept alive outside the task
CommanderNeverClosed == TRUE

\* commander_rx lives in the control loop task and is dropped when it ends
CommanderOpen == ctlPc # "done"
\* stream_request_rx is moved into the fan-out worker and dropped with it
StreamRxOpen == streamPc # "stopped" /\ newPc # "failed"
\* watch_config_rx is moved into the lifecycle worker and dropped with it
ConfigRxOpen == camPc # "Stopped"

(* ---------------------------- rtsp/factory.rs: u32 --------------------- *)
\* a u32 is kept as << high 16 bits, low 16 bits >>; an exact product keeps
\* the bits above 2^32 in its first component
Limb == 2 ^ 16
U32(n) == << n \div Limb, n % Limb >>
U32Le(a, b) == a[1] < b[1] \/ (a[1] = b[1] /\ a[2] <= b[2])
U32Max(a, b) == IF U32Le(a, b) THEN b ELSE a
\* bitrate * 15u32, before it is cut to 32 bits
Times15(a) == << a[1] * 15 + (a[2] * 15) \div Limb, (a[2] * 15) % Limb >>
Overflows(p) == p[1] >= Limb
Wrap(p) == << p[1] % Limb, p[2] >>
\* ... / 8u32
Div8(p) == << p[1] \div 8, (p[1] % 8) * (Limb \div 8) + p[2] \div 8 >>
\* 4u32 * 1024u32 * 1024u32
FourMiB == U32(4 * 1024 * 1024)

\* fn buffer_size(bitrate: u32) -> u32: the multiplication overflows u32 for
\* large bitrates; a build with overflow checks panics there, a build
\* without them goes on with the product modulo 2^32
buffer_size(bitrate, checks) ==
  LET p == Times15(bitrate) IN
    IF Overflows(p) /\ checks
      THEN [panic |-> TRUE, val |-> << >>]
      ELSE [panic |-> FALSE, val |-> U32Max(Div8(Wrap(p)), FourMiB)]

\* the bitrates tried: the ends of the u32 range, the largest bitrate still
\* under the 4 MiB floor, the largest whose product fits 32 bits, and an
\* ordinary camera bitrate, each with its neighbours
Near(k) ==
  { << k[1], l >> : l \in { x \in (k[2] - Spread) .. (k[2] + Spread) :
                              x >= 0 /\ x < Limb } }
Bitrates ==
  Near(U32(0)) \cup Near(U32(2236962)) \cup Near(U32(8 * 1024 * 1024))
    \cup Near(U32(286331153)) \cup Near(<< Limb - 1, Limb - 1 >>)

(* ---------------------------- rtsp/factory.rs: callback ---------------- *)
VidFormats == { "None", "H264", "H265" }
\* AudFormat::Adpcm(block_size) is kept without its block size
AudFormats == { "None", "Aac", "Adpcm" }
StreamConfigs ==
  [vid_format : VidFormats, aud_format : AudFormats, bitrate : Bitrates]

ClientData(vid, aud) == [vid |-> vid, aud |-> aud]

\* build_h264, build_h265, build_aac, build_adpcm: each calls buffer_size
\* first and then makes its gstreamer elements, which may fail (made)
BuildApp(cfg, made) ==
  LET b == buffer_size(cfg.bitrate, overflow_checks) IN
    IF b.panic THEN [res |-> "Panic", app |-> FALSE, buffer |-> << >>]
    ELSE IF made THEN [res |-> "Ok", app |-> TRUE, buffer |-> b.val]
    ELSE [res |-> "Err", app |-> FALSE, buffer |-> b.val]

\* let vid = match stream_config.vid_format { .. }?
Vid(cfg, made) ==
  IF cfg.vid_format = "None"
    THEN \* build_unknown(&element, "black")?
         [res |-> IF made THEN "Ok" ELSE "Err", app |-> FALSE, buffer |-> << >>]
    ELSE BuildApp(cfg, made)

\* variant of Aud: the audio source is built from aud_format alone
AudAnyVideo(cfg, made) ==
  IF cfg.aud_format = "None"
    THEN [res |-> "Ok", app |-> FALSE, buffer |-> << >>]
    ELSE BuildApp(cfg, made)

\* let aud = if matches!(stream_config.vid_format, VidFormat::None) { None }
\*           else { match stream_config.aud_format { .. }? }
Aud(cfg, made) ==
  IF cfg.vid_format = "None" \/ cfg.aud_format = "None"
    THEN [res |-> "Ok", app |-> FALSE, buffer |-> << >>]
    ELSE BuildApp(cfg, made)

\* the closure up to its blocking_send: clear_bin, vid, aud
Pipeline(cfg, cleared, vidMade, audMade) ==
  LET v == Vid(cfg, vidMade)
      a == Aud(cfg, audMade)
  IN  IF ~cleared THEN [res |-> "Err", data |-> ClientData(FALSE, FALSE),
                        buffer |-> << >>]
      ELSE IF v.res # "Ok" THEN [res |-> v.res, data |-> ClientData(FALSE, FALSE),
                                 buffer |-> v.buffer]
      ELSE IF a.res # "Ok" THEN [res |-> a.res, data |-> ClientData(FALSE, FALSE),
                                 buffer |-> v.buffer]
      ELSE [res |-> "Ok", data |-> ClientData(v.app, a.app), buffer |-> v.buffer]

NoMedia == [no |-> 0, res |-> "none", buffer |-> << >>]

NoFactory ==
  /\ stream_config = [vid_format |-> "None", aud_format |-> "None",
                      bitrate |-> U32(0)]
  /\ overflow_checks = FALSE
  /\ client_rx = << >>
  /\ client_open = TRUE
  /\ media = NoMedia

NeoCamInit ==
  /\ cancel = FALSE
  /\ config_watch \in Configs
  /\ strict = config_watch.strict
  /\ commander = << >>
  /\ stream_request = << >>
  /\ camera_watch = Absent
  /\ newPc = "spawnCtl"
  /\ ctlPc = "notStarted"
  /\ fwdReq = [name |-> "-", sender |-> 0, strict |-> FALSE]
  /\ camPc = "notStarted"
  /\ attemptCfg = 0
  /\ liveConns = << >>
  /\ streamPc = "notStarted"
  /\ reply = [s \in Slots |-> "unused"]
  /\ inst = [h \in Insts |-> NoInst]
  /\ shutPc = [c \in Callers |-> "idle"]
  /\ supDropped = FALSE
  /\ ops = 0
  /\ updateRes = [res |-> "none", arg |-> config_watch.id]
  /\ subRes = "none"
  /\ accepted = 0
  /\ served = 0
  /\ attemptLatest = 0

\* the session supervisor on its own: no media factory has been made
Init == NeoCamInit /\ NoFactory

(* ---------------------------- queues ----------------------------------- *)
\* variant of Dequeue: the newest command comes out first
DequeueNewest(q) ==
  [cmd |-> q[Len(q)].cmd, no |-> q[Len(q)].no, rest |-> SubSeq(q, 1, Len(q) - 1)]

\* ReceiverStream::next on commander_rx: the oldest command comes out first
Dequeue(q) == [cmd |-> Head(q).cmd, no |-> Head(q).no, rest |-> Tail(q)]

\* mpsc::Sender::send stores the value behind the ones already queued
Enqueue(q, c) == Append(q, c)

\* a command accepted by the command queue gets the next arrival number
Accept(c) ==
  /\ commander' = Enqueue(commander, Queued(c, accepted + 1))
  /\ accepted' = accepted + 1


\* everything the control loop task owns is dropped when the task ends: the
\* commands still queued behind commander_rx and the request being forwarded
LoopDrops(q) ==
  SlotsOf(q) \cup (IF ctlPc = "fwd" THEN {fwdReq.sender} ELSE {})

NoFwd == [name |-> "-", sender |-> 0, strict |-> FALSE]

(* ---------------------------- NeoCam::new ------------------------------ *)
\* variant of NewFails: a NeoCam whose drop leaves the token alone
NewFailsNoCancel ==
  /\ newPc' = "failed"
  /\ cancel' = cancel
  /\ supDropped' = TRUE

\* impl Drop for NeoCam, run when new() fails after `me` was built
NewFails ==
  /\ newPc' = "failed"
  /\ cancel' = TRUE
  /\ supDropped' = TRUE

\* variant of NewSpawnControl: new() moves on to the lifecycle worker and
\* leaves the control loop task unspawned
NewSpawnControlSkipped ==
  /\ newPc = "spawnCtl"
  /\ newPc' = "spawnCam"
  /\ UNCHANGED << cancel, config_watch, strict, commander, stream_request,
                  camera_watch, ctlPc, fwdReq, camPc, attemptCfg, liveConns,
                  streamPc, reply, inst, shutPc, supDropped, ops, updateRes,
                  subRes, accepted, served, attemptLatest, stream_config,
                  overflow_checks, client_rx, client_open, media >>

NewSpawnControl ==
  /\ newPc = "spawnCtl"
  /\ newPc' = "spawnCam"
  /\ ctlPc' = "recv"
  /\ UNCHANGED << cancel, config_watch, strict, commander, stream_request,
                  camera_watch, fwdReq, camPc, attemptCfg, liveConns,
                  streamPc, reply, inst, shutPc, supDropped, ops, updateRes,
                  subRes, accepted, served, attemptLatest, stream_config,
                  overflow_checks, client_rx, client_open, media >>

\* variant of NewSpawnCam: new() performs the first handshake itself, keeps
\* that connection, and then starts the lifecycle worker as well
NewSpawnCamConnecting ==
  /\ newPc = "spawnCam"
  /\ newPc' = "sendInst"
  /\ camPc' = "Disconnected"
  /\ liveConns' = Append(liveConns, config_watch.id)
  /\ UNCHANGED << cancel, config_watch, strict, commander, stream_request,
                  camera_watch, ctlPc, fwdReq, attemptCfg, streamPc, reply,
                  inst, shutPc, supDropped, ops, updateRes, subRes, accepted,
                  served, attemptLatest, stream_config, overflow_checks,
                  client_rx, client_open, media >>

NewSpawnCam ==
  /\ newPc = "spawnCam"
  /\ newPc' = "sendInst"
  /\ camPc' = "Disconnected"
  /\ UNCHANGED << cancel, config_watch, strict, commander, stream_request,
                  camera_watch, ctlPc, fwdReq, attemptCfg, liveConns,
                  streamPc, reply, inst, shutPc, supDropped, ops, updateRes,
                  subRes, accepted, served, attemptLatest, stream_config,
                  overflow_checks, client_rx, client_open, media >>

\* commander_tx.send(NeoCamCommand::Instance(instance_tx)).await?
NewSendInstance ==
  /\ newPc = "sendInst"
  /\ \/ ~CommanderOpen
     \/ Len(commander) < CommanderCap
  /\ IF CommanderOpen
       THEN /\ Accept(Instance(1))
            /\ reply' = [reply EXCEPT ![1] = "pending"]
            /\ newPc' = "awaitInst"
            /\ UNCHANGED << cancel, supDropped >>
       ELSE /\ NewFails
            /\ reply' = [reply EXCEPT ![1] = "dropped"]
            /\ UNCHANGED << commander, accepted >>
  /\ UNCHANGED << config_watch, strict, stream_request, camera_watch, ctlPc,
                  fwdReq, camPc, attemptCfg, liveConns, streamPc, inst,
                  shutPc, ops, updateRes, subRes, served, attemptLatest,
                  stream_config, overflow_checks, client_rx, client_open,
                  media >>

\* variant of NewAwaitInstance: new() goes on without waiting for the reply
NewAwaitInstanceNoWait ==
  /\ newPc = "awaitInst"
  /\ newPc' = "subscribe"
  /\ UNCHANGED << cancel, config_watch, strict, commander, stream_request,
                  camera_watch, ctlPc, fwdReq, camPc, attemptCfg, liveConns,
                  streamPc, reply, inst, shutPc, supDropped, ops, updateRes,
                  subRes, accepted, served, attemptLatest, stream_config,
                  overflow_checks, client_rx, client_open, media >>

\* let instance = instance_rx.await??
NewAwaitInstance ==
  /\ newPc = "awaitInst"
  /\ reply[1] \in {"fulfilled", "dropped"}
  /\ IF reply[1] = "fulfilled" /\ inst[1].ok
       THEN /\ newPc' = "subscribe"
            /\ UNCHANGED << cancel, supDropped >>
       ELSE NewFails
  /\ UNCHANGED << config_watch, strict, commander, stream_request, camera_watch,
                  ctlPc, fwdReq, camPc, attemptCfg, liveConns, streamPc,
                  reply, inst, shutPc, ops, updateRes, subRes, accepted,
                  served, attemptLatest, stream_config, overflow_checks,
                  client_rx, client_open, media >>

\* instance.subscribe(): the handle asks the control loop for another handle
NewSubscribe ==
  /\ newPc = "subscribe"
  /\ \/ ~CommanderOpen
     \/ Len(commander) < CommanderCap
  /\ IF CommanderOpen
       THEN /\ Accept(Instance(2))
            /\ reply' = [reply EXCEPT ![2] = "pending"]
            /\ newPc' = "awaitSub"
            /\ UNCHANGED << cancel, supDropped >>
       ELSE /\ NewFails
            /\ reply' = [reply EXCEPT ![2] = "dropped"]
            /\ UNCHANGED << commander, accepted >>
  /\ UNCHANGED << config_watch, strict, stream_request, camera_watch, ctlPc,
                  fwdReq, camPc, attemptCfg, liveConns, streamPc, inst,
                  shutPc, ops, updateRes, subRes, served, attemptLatest,
                  stream_config, overflow_checks, client_rx, client_open,
                  media >>

NewAwaitSubscribe ==
  /\ newPc = "awaitSub"
  /\ reply[2] \in {"fulfilled", "dropped"}
  /\ IF reply[2] = "fulfilled" /\ inst[2].ok
       THEN /\ newPc' = "spawnStream"
            /\ UNCHANGED << cancel, supDropped >>
       ELSE NewFails
  /\ UNCHANGED << config_watch, strict, commander, stream_request, camera_watch,
                  ctlPc, fwdReq, camPc, attemptCfg, liveConns, streamPc,
                  reply, inst, shutPc, ops, updateRes, subRes, accepted,
                  served, attemptLatest, stream_config, overflow_checks,
                  client_rx, client_open, media >>

\* variant of NewSpawnStream: new() returns only once a connection has been
\* published
NewSpawnStreamConnected ==
  /\ newPc = "spawnStream"
  /\ camera_watch # Absent
  /\ newPc' = "done"
  /\ streamPc' = "run"
  /\ inst' = [inst EXCEPT ![1].st = "dropped"]
  /\ UNCHANGED << cancel, config_watch, strict, commander, stream_request,
                  camera_watch, ctlPc, fwdReq, camPc, attemptCfg, liveConns,
                  reply, shutPc, supDropped, ops, updateRes, subRes, accepted,
                  served, attemptLatest, stream_config, overflow_checks,
                  client_rx, client_open, media >>

\* the fan-out worker takes stream_request_rx and stream_instance; `instance`
\* goes out of scope when new() returns Ok(me)
NewSpawnStream ==
  /\ newPc = "spawnStream"
  /\ newPc' = "done"
  /\ streamPc' = "run"
  /\ inst' = [inst EXCEPT ![1].st = "dropped"]
  /\ UNCHANGED << cancel, config_watch, strict, commander, stream_request,
                  camera_watch, ctlPc, fwdReq, camPc, attemptCfg, liveConns,
                  reply, shutPc, supDropped, ops, updateRes, subRes, accepted,
                  served, attemptLatest, stream_config, overflow_checks,
                  client_rx, client_open, media >>

(* ---------------------------- control loop ----------------------------- *)
\* the task ends: commander_rx, stream_request_tx and the pending forward go
CtlEnds ==
  /\ ctlPc' = "done"
  /\ commander' = << >>
  /\ fwdReq' = NoFwd

\* variant of CtlCancelled: cancellation is observed only between commands,
\* not while a forward is suspended
CtlCancelledIdleOnly ==
  /\ ctlPc = "recv"
  /\ cancel
  /\ CtlEnds
  /\ reply' = DropSenders(reply, LoopDrops(commander))
  /\ UNCHANGED << cancel, config_watch, strict, stream_request, camera_watch,
                  newPc, camPc, attemptCfg, liveConns, streamPc, inst, shutPc,
                  supDropped, ops, updateRes, subRes, accepted, served,
                  attemptLatest, stream_config, overflow_checks, client_rx,
                  client_open, media >>

\* variant of CtlCancelled: cancellation is observed only while a forward is
\* suspended, not while the loop waits for the next command
CtlCancelledNotIdle ==
  /\ ctlPc = "fwd"
  /\ cancel
  /\ CtlEnds
  /\ reply' = DropSenders(reply, LoopDrops(commander))
  /\ UNCHANGED << cancel, config_watch, strict, stream_request, camera_watch,
                  newPc, camPc, attemptCfg, liveConns, streamPc, inst, shutPc,
                  supDropped, ops, updateRes, subRes, accepted, served,
                  attemptLatest, stream_config, overflow_checks, client_rx,
                  client_open, media >>

\* `_ = sender_cancel.cancelled() => Ok(())` wins the select
CtlCancelled ==
  /\ ctlPc \in {"recv", "fwd"}
  /\ cancel
  /\ CtlEnds
  /\ reply' = DropSenders(reply, LoopDrops(commander))
  /\ UNCHANGED << cancel, config_watch, strict, stream_request, camera_watch,
                  newPc, camPc, attemptCfg, liveConns, streamPc, inst, shutPc,
                  supDropped, ops, updateRes, subRes, accepted, served,
                  attemptLatest, stream_config, overflow_checks, client_rx,
                  client_open, media >>

\* variant of CtlHangUp: the arm cancels but lacks the return, so the loop
\* goes on with the next command
CtlHangUpContinue ==
  /\ ctlPc = "recv"
  /\ commander # << >>
  /\ Dequeue(commander).cmd.type = "HangUp"
  /\ commander' = Dequeue(commander).rest
  /\ served' = Dequeue(commander).no
  /\ cancel' = TRUE
  /\ UNCHANGED << config_watch, strict, stream_request, camera_watch, newPc, ctlPc,
                  fwdReq, camPc, attemptCfg, liveConns, streamPc, reply, inst,
                  shutPc, supDropped, ops, updateRes, subRes, accepted,
                  attemptLatest, stream_config, overflow_checks, client_rx,
                  client_open, media >>

\* variant of CtlHangUp: the arm returns without calling cancel()
CtlHangUpNoCancel ==
  /\ ctlPc = "recv"
  /\ commander # << >>
  /\ Dequeue(commander).cmd.type = "HangUp"
  /\ commander' = Dequeue(commander).rest
  /\ served' = Dequeue(commander).no
  /\ ctlPc' = "hangup"
  /\ UNCHANGED << cancel, config_watch, strict, stream_request, camera_watch,
                  newPc, fwdReq, camPc, attemptCfg, liveConns, streamPc,
                  reply, inst, shutPc, supDropped, ops, updateRes, subRes,
                  accepted, attemptLatest, stream_config, overflow_checks,
                  client_rx, client_open, media >>

\* NeoCamCommand::HangUp: sender_cancel.cancel()
CtlHangUp ==
  /\ ctlPc = "recv"
  /\ commander # << >>
  /\ Dequeue(commander).cmd.type = "HangUp"
  /\ commander' = Dequeue(commander).rest
  /\ served' = Dequeue(commander).no
  /\ cancel' = TRUE
  /\ ctlPc' = "hangup"
  /\ UNCHANGED << config_watch, strict, stream_request, camera_watch, newPc,
                  fwdReq, camPc, attemptCfg, liveConns, streamPc, reply, inst,
                  shutPc, supDropped, ops, updateRes, subRes, accepted,
                  attemptLatest, stream_config, overflow_checks, client_rx,
                  client_open, media >>

\* variant of CtlHangUpReturn: the loop stops serving but the task keeps
\* commander_rx, so the commands behind the terminate stay queued
CtlHangUpReturnKeepsQueue ==
  /\ ctlPc = "hangup"
  /\ ctlPc' = "done"
  /\ UNCHANGED << cancel, config_watch, strict, commander, stream_request,
                  camera_watch, newPc, fwdReq, camPc, attemptCfg, liveConns,
                  streamPc, reply, inst, shutPc, supDropped, ops, updateRes,
                  subRes, accepted, served, attemptLatest, stream_config,
                  overflow_checks, client_rx, client_open, media >>

\* NeoCamCommand::HangUp: return Ok(()), the task ends
CtlHangUpReturn ==
  /\ ctlPc = "hangup"
  /\ CtlEnds
  /\ reply' = DropSenders(reply, LoopDrops(commander))
  /\ UNCHANGED << cancel, config_watch, strict, stream_request, camera_watch,
                  newPc, camPc, attemptCfg, liveConns, streamPc, inst, shutPc,
                  supDropped, ops, updateRes, subRes, accepted, served,
                  attemptLatest, stream_config, overflow_checks, client_rx,
                  client_open, media >>

\* variant of CtlInstance: only the requests of NeoCam::new are answered,
\* the reply sender of any other request is dropped unused
CtlInstanceDropsReply ==
  /\ ctlPc = "recv"
  /\ commander # << >>
  /\ Dequeue(commander).cmd.type = "Instance"
  /\ LET s == Dequeue(commander).cmd.slot IN
       IF reply[s] = "pending" /\ s <= 2
         THEN /\ reply' = [reply EXCEPT ![s] = "fulfilled"]
              /\ inst' = [inst EXCEPT ![InstFor(s)] = NeoInstanceNew(InstanceArmEnds)]
         ELSE /\ reply' = DropSenders(reply, {s})
              /\ UNCHANGED inst
  /\ commander' = Dequeue(commander).rest
  /\ served' = Dequeue(commander).no
  /\ UNCHANGED << cancel, config_watch, strict, stream_request, camera_watch,
                  newPc, ctlPc, fwdReq, camPc, attemptCfg, liveConns,
                  streamPc, shutPc, supDropped, ops, updateRes, subRes,
                  accepted, attemptLatest, stream_config, overflow_checks,
                  client_rx, client_open, media >>

\* variant of CtlInstance: `result.send(instance)?`, the loop ends with an
\* error when the requester is gone
CtlInstanceStrict ==
  /\ ctlPc = "recv"
  /\ commander # << >>
  /\ Dequeue(commander).cmd.type = "Instance"
  /\ served' = Dequeue(commander).no
  /\ LET s == Dequeue(commander).cmd.slot IN
       IF reply[s] = "pending"
         THEN /\ reply' = [reply EXCEPT ![s] = "fulfilled"]
              /\ inst' = [inst EXCEPT ![InstFor(s)] = NeoInstanceNew(InstanceArmEnds)]
              /\ commander' = Dequeue(commander).rest
              /\ UNCHANGED << ctlPc, fwdReq >>
         ELSE /\ CtlEnds
              /\ reply' = DropSenders(reply, SlotsOf(Dequeue(commander).rest))
              /\ UNCHANGED inst
  /\ UNCHANGED << cancel, config_watch, strict, stream_request, camera_watch,
                  newPc, camPc, attemptCfg, liveConns, streamPc, shutPc,
                  supDropped, ops, updateRes, subRes, accepted, attemptLatest,
                  stream_config, overflow_checks, client_rx, client_open,
                  media >>

\* NeoCamCommand::Instance: build a handle, `let _ = result.send(instance)`
CtlInstance ==
  /\ ctlPc = "recv"
  /\ commander # << >>
  /\ Dequeue(commander).cmd.type = "Instance"
  /\ LET s == Dequeue(commander).cmd.slot IN
       IF reply[s] = "pending"
         THEN /\ reply' = [reply EXCEPT ![s] = "fulfilled"]
              /\ inst' = [inst EXCEPT ![InstFor(s)] = NeoInstanceNew(InstanceArmEnds)]
         ELSE UNCHANGED << reply, inst >>
  /\ commander' = Dequeue(commander).rest
  /\ served' = Dequeue(commander).no
  /\ UNCHANGED << cancel, config_watch, strict, stream_request, camera_watch,
                  newPc, ctlPc, fwdReq, camPc, attemptCfg, liveConns,
                  streamPc, shutPc, supDropped, ops, updateRes, subRes,
                  accepted, attemptLatest, stream_config, overflow_checks,
                  client_rx, client_open, media >>

\* variant of CtlStream: the request is forwarded with try_send, so a full
\* fan-out queue is an error that ends the loop as a closed one does
CtlStreamTrySend ==
  /\ ctlPc = "recv"
  /\ commander # << >>
  /\ Dequeue(commander).cmd.type = "Stream"
  /\ served' = Dequeue(commander).no
  /\ LET r == StreamRequest(Dequeue(commander).cmd) IN
       IF StreamRxOpen /\ Len(stream_request) < StreamCap
         THEN /\ stream_request' = Enqueue(stream_request, r)
              /\ commander' = Dequeue(commander).rest
              /\ UNCHANGED << ctlPc, fwdReq, reply >>
         ELSE /\ CtlEnds
              /\ reply' = DropSenders(reply,
                            SlotsOf(Dequeue(commander).rest) \cup {r.sender})
              /\ UNCHANGED stream_request
  /\ UNCHANGED << cancel, config_watch, strict, camera_watch, newPc, camPc,
                  attemptCfg, liveConns, streamPc, inst, shutPc, supDropped,
                  ops, updateRes, subRes, accepted, attemptLatest,
                  stream_config, overflow_checks, client_rx, client_open,
                  media >>

\* NeoCamCommand::Stream: stream_request_tx.send(StreamRequest{..}).await?
CtlStream ==
  /\ ctlPc = "recv"
  /\ commander # << >>
  /\ Dequeue(commander).cmd.type = "Stream"
  /\ served' = Dequeue(commander).no
  /\ LET r == StreamRequest(Dequeue(commander).cmd) IN
       IF ~StreamRxOpen
         THEN \* send fails, `?` leaves the loop with the error
              /\ CtlEnds
              /\ reply' = DropSenders(reply,
                            SlotsOf(Dequeue(commander).rest) \cup {r.sender})
              /\ UNCHANGED stream_request
         ELSE IF Len(stream_request) < StreamCap
           THEN /\ stream_request' = Enqueue(stream_request, r)
                /\ commander' = Dequeue(commander).rest
                /\ UNCHANGED << ctlPc, fwdReq, reply >>
           ELSE \* the queue is full: the send suspends
                /\ ctlPc' = "fwd"
                /\ fwdReq' = r
                /\ commander' = Dequeue(commander).rest
                /\ UNCHANGED << stream_request, reply >>
  /\ UNCHANGED << cancel, config_watch, strict, camera_watch, newPc, camPc,
                  attemptCfg, liveConns, streamPc, inst, shutPc, supDropped,
                  ops, updateRes, subRes, accepted, attemptLatest,
                  stream_config, overflow_checks, client_rx, client_open,
                  media >>

\* the suspended stream_request_tx.send(..) completes or fails
CtlForward ==
  /\ ctlPc = "fwd"
  /\ \/ ~StreamRxOpen
     \/ Len(stream_request) < StreamCap
  /\ IF ~StreamRxOpen
       THEN /\ CtlEnds
            /\ reply' = DropSenders(reply, LoopDrops(commander))
            /\ UNCHANGED stream_request
       ELSE /\ stream_request' = Enqueue(stream_request, fwdReq)
            /\ ctlPc' = "recv"
            /\ fwdReq' = NoFwd
            /\ UNCHANGED << commander, reply >>
  /\ UNCHANGED << cancel, config_watch, strict, camera_watch, newPc, camPc,
                  attemptCfg, liveConns, streamPc, inst, shutPc, supDropped,
                  ops, updateRes, subRes, accepted, served, attemptLatest,
                  stream_config, overflow_checks, client_rx, client_open,
                  media >>

(* ---------------------------- lifecycle worker (spec.md 4.2) ----------- *)
\* the configuration an attempt was made with is forgotten with the attempt
AttemptOver ==
  /\ attemptCfg' = 0
  /\ attemptLatest' = 0

\* Disconnected -> Connecting: the attempt reads the latest configuration
CamStartConnect ==
  /\ camPc = "Disconnected"
  /\ ~cancel
  /\ camPc' = "Connecting"
  /\ attemptCfg' = config_watch.id
  /\ attemptLatest' = updateRes.arg
  /\ UNCHANGED << cancel, config_watch, strict, commander, stream_request,
                  camera_watch, newPc, ctlPc, fwdReq, liveConns, streamPc,
                  reply, inst, shutPc, supDropped, ops, updateRes, subRes,
                  accepted, served, stream_config, overflow_checks, client_rx,
                  client_open, media >>

\* Connecting -> Connected: handshake success publishes the new reference
CamConnectOk ==
  /\ camPc = "Connecting"
  /\ ~cancel
  /\ liveConns' = Append(liveConns, attemptCfg)
  /\ camera_watch' = attemptCfg
  /\ camPc' = "Connected"
  /\ UNCHANGED << cancel, config_watch, strict, commander, stream_request, newPc,
                  ctlPc, fwdReq, attemptCfg, streamPc, reply, inst, shutPc,
                  supDropped, ops, updateRes, subRes, accepted, served,
                  attemptLatest, stream_config, overflow_checks, client_rx,
                  client_open, media >>

\* Connecting -> Disconnected: the handshake failed, retried later
CamConnectFail ==
  /\ camPc = "Connecting"
  /\ ~cancel
  /\ camPc' = "Disconnected"
  /\ AttemptOver
  /\ UNCHANGED << cancel, config_watch, strict, commander, stream_request,
                  camera_watch, newPc, ctlPc, fwdReq, liveConns, streamPc,
                  reply, inst, shutPc, supDropped, ops, updateRes, subRes,
                  accepted, served, stream_config, overflow_checks, client_rx,
                  client_open, media >>

\* the connection is torn down and the published reference retracted
CamTearDown ==
  /\ AttemptOver
  /\ liveConns' = Tail(liveConns)
  /\ camera_watch' = Absent

\* Connected -> Disconnected on any I/O or protocol error
CamError ==
  /\ camPc = "Connected"
  /\ ~cancel
  /\ CamTearDown
  /\ camPc' = "Disconnected"
  /\ UNCHANGED << cancel, config_watch, strict, commander, stream_request, newPc,
                  ctlPc, fwdReq, streamPc, reply, inst, shutPc, supDropped,
                  ops, updateRes, subRes, accepted, served, stream_config,
                  overflow_checks, client_rx, client_open, media >>

\* a configuration change seen while connected: tear down, then reconnect
CamConfigChanged ==
  /\ camPc = "Connected"
  /\ ~cancel
  /\ config_watch.id # camera_watch
  /\ CamTearDown
  /\ camPc' = "Disconnected"
  /\ UNCHANGED << cancel, config_watch, strict, commander, stream_request, newPc,
                  ctlPc, fwdReq, streamPc, reply, inst, shutPc, supDropped,
                  ops, updateRes, subRes, accepted, served, stream_config,
                  overflow_checks, client_rx, client_open, media >>

\* cancellation aborts from any state to Stopped; the worker's channel ends
\* (watch_config_rx, camera_watch_tx) are dropped with it
CamCancelled ==
  /\ camPc \in {"Disconnected", "Connecting", "Connected"}
  /\ cancel
  /\ IF camPc = "Connected"
       THEN CamTearDown
       ELSE AttemptOver /\ UNCHANGED << liveConns, camera_watch >>
  /\ camPc' = "Stopped"
  /\ UNCHANGED << cancel, config_watch, strict, commander, stream_request, newPc,
                  ctlPc, fwdReq, streamPc, reply, inst, shutPc, supDropped,
                  ops, updateRes, subRes, accepted, served, stream_config,
                  overflow_checks, client_rx, client_open, media >>

(* ---------------------------- fan-out worker (spec.md 4.3) ------------- *)
\* a Subscription Request is consumed once and its reply slot fulfilled with
\* a fresh downstream subscription
StreamServe ==
  /\ streamPc = "run"
  /\ ~cancel
  /\ stream_request # << >>
  /\ reply' = [reply EXCEPT ![Head(stream_request).sender] =
                IF @ = "pending" THEN "fulfilled" ELSE @]
  /\ stream_request' = Tail(stream_request)
  /\ UNCHANGED << cancel, config_watch, strict, commander, camera_watch, newPc,
                  ctlPc, fwdReq, camPc, attemptCfg, liveConns, streamPc, inst,
                  shutPc, supDropped, ops, updateRes, subRes, accepted,
                  served, attemptLatest, stream_config, overflow_checks,
                  client_rx, client_open, media >>

\* the worker observes cancellation and exits: stream_request_rx and its
\* handle are dropped, and with them the requests still queued
StreamCancelled ==
  /\ streamPc = "run"
  /\ cancel
  /\ streamPc' = "stopped"
  /\ reply' = DropSenders(reply, SendersOf(stream_request))
  /\ stream_request' = << >>
  /\ inst' = [inst EXCEPT ![2].st = "dropped"]
  /\ UNCHANGED << cancel, config_watch, strict, commander, camera_watch, newPc,
                  ctlPc, fwdReq, camPc, attemptCfg, liveConns, shutPc,
                  supDropped, ops, updateRes, subRes, accepted, served,
                  attemptLatest, stream_config, overflow_checks, client_rx,
                  client_open, media >>

(* ---------------------------- NeoCam methods --------------------------- *)
Usable == newPc = "done" /\ ~supDropped

\* one more operation is invoked by a user
UserOp ==
  /\ ops < MaxOps
  /\ ops' = ops + 1

\* user Instance requests whose reply is still owed a handle
PendingInst ==
  { s \in Slots : /\ s > 2
                  /\ reply[s] = "pending"
                  /\ \E i \in 1 .. Len(commander) :
                        commander[i].cmd = Instance(s) }

HandleBudget == Cardinality(FreeInsts) > Cardinality(PendingInst)

\* NeoCam::subscribe
Subscribe ==
  /\ Usable
  /\ UserOp
  /\ HandleBudget
  /\ LET h == CHOOSE f \in FreeInsts : \A g \in FreeInsts : f <= g
         n == NeoInstanceNew(SubscribeEnds)
     IN  /\ inst' = [inst EXCEPT ![h] = n]
         /\ subRes' = IF n.ok THEN "Ok" ELSE "Err"
  /\ UNCHANGED << cancel, config_watch, strict, commander, stream_request,
                  camera_watch, newPc, ctlPc, fwdReq, camPc, attemptCfg,
                  liveConns, streamPc, reply, shutPc, supDropped, updateRes,
                  accepted, served, attemptLatest, stream_config,
                  overflow_checks, client_rx, client_open, media >>

\* variant of WatchSend: the value is stored whether or not a receiver is left
WatchSendAlways(cur, c) == [ok |-> TRUE, val |-> c]

\* variant of WatchSend: the call succeeds but the old value stays in place
WatchSendKeepsOld(cur, c) == [ok |-> ConfigRxOpen, val |-> cur]

\* watch::Sender::send stores the value unless every receiver is gone
WatchSend(cur, c) ==
  IF ConfigRxOpen THEN [ok |-> TRUE, val |-> c] ELSE [ok |-> FALSE, val |-> cur]

\* NeoCam::update_config
UpdateConfig(c) ==
  /\ Usable
  /\ UserOp
  /\ config_watch' = WatchSend(config_watch, c).val
  /\ updateRes' = [res |-> IF WatchSend(config_watch, c).ok THEN "Ok" ELSE "Err",
                   arg |-> c.id]
  /\ UNCHANGED << cancel, strict, commander, stream_request, camera_watch, newPc,
                  ctlPc, fwdReq, camPc, attemptCfg, liveConns, streamPc,
                  reply, inst, shutPc, supDropped, subRes, accepted, served,
                  attemptLatest, stream_config, overflow_checks, client_rx,
                  client_open, media >>

\* variant of SendHangUp: the command is stored even when the queue is full
SendHangUpUnbounded(c) ==
  IF ~CommanderOpen
    THEN /\ shutPc' = [shutPc EXCEPT ![c] = "waiting"]
         /\ UNCHANGED << commander, accepted >>
    ELSE /\ Accept(HangUp)
         /\ shutPc' = [shutPc EXCEPT ![c] = "waiting"]

\* let _ = self.commander.send(NeoCamCommand::HangUp).await: the send
\* fails when commander_rx is gone, completes when the queue has room, and
\* suspends the caller while the queue is full
SendHangUp(c) ==
  IF ~CommanderOpen
    THEN /\ shutPc' = [shutPc EXCEPT ![c] = "waiting"]
         /\ UNCHANGED << commander, accepted >>
    ELSE IF Len(commander) < CommanderCap
      THEN /\ Accept(HangUp)
           /\ shutPc' = [shutPc EXCEPT ![c] = "waiting"]
      ELSE /\ shutPc' = [shutPc EXCEPT ![c] = "sending"]
           /\ UNCHANGED << commander, accepted >>

\* NeoCam::shutdown is entered
ShutdownCall(c) ==
  /\ Usable
  /\ shutPc[c] = "idle"
  /\ UserOp
  /\ SendHangUp(c)
  /\ UNCHANGED << cancel, config_watch, strict, stream_request, camera_watch,
                  newPc, ctlPc, fwdReq, camPc, attemptCfg, liveConns,
                  streamPc, reply, inst, supDropped, updateRes, subRes,
                  served, attemptLatest, stream_config, overflow_checks,
                  client_rx, client_open, media >>

\* the suspended send of shutdown() is resumed
ShutdownSend(c) ==
  /\ shutPc[c] = "sending"
  /\ \/ ~CommanderOpen
     \/ Len(commander) < CommanderCap
  /\ SendHangUp(c)
  /\ UNCHANGED << cancel, config_watch, strict, stream_request, camera_watch,
                  newPc, ctlPc, fwdReq, camPc, attemptCfg, liveConns,
                  streamPc, reply, inst, supDropped, ops, updateRes, subRes,
                  served, attemptLatest, stream_config, overflow_checks,
                  client_rx, client_open, media >>

\* variant of ShutdownReturn: shutdown() returns once the command is sent
ShutdownReturnEarly(c) ==
  /\ shutPc[c] = "waiting"
  /\ shutPc' = [shutPc EXCEPT ![c] = "returned"]
  /\ UNCHANGED << cancel, config_watch, strict, commander, stream_request,
                  camera_watch, newPc, ctlPc, fwdReq, camPc, attemptCfg,
                  liveConns, streamPc, reply, inst, supDropped, ops,
                  updateRes, subRes, accepted, served, attemptLatest,
                  stream_config, overflow_checks, client_rx, client_open,
                  media >>

\* self.cancel.cancelled().await
ShutdownReturn(c) ==
  /\ shutPc[c] = "waiting"
  /\ cancel
  /\ shutPc' = [shutPc EXCEPT ![c] = "returned"]
  /\ UNCHANGED << cancel, config_watch, strict, commander, stream_request,
                  camera_watch, newPc, ctlPc, fwdReq, camPc, attemptCfg,
                  liveConns, streamPc, reply, inst, supDropped, ops,
                  updateRes, subRes, accepted, served, attemptLatest,
                  stream_config, overflow_checks, client_rx, client_open,
                  media >>

\* impl Drop for NeoCam; no borrow of the NeoCam may be outstanding
DropNeoCam ==
  /\ Usable
  /\ UserOp
  /\ \A c \in Callers : shutPc[c] \in {"idle", "returned"}
  /\ cancel' = TRUE
  /\ supDropped' = TRUE
  /\ UNCHANGED << config_watch, strict, commander, stream_request, camera_watch,
                  newPc, ctlPc, fwdReq, camPc, attemptCfg, liveConns,
                  streamPc, reply, inst, shutPc, updateRes, subRes, accepted,
                  served, attemptLatest, stream_config, overflow_checks,
                  client_rx, client_open, media >>

(* ---------------------------- handles (spec.md 4.4) -------------------- *)
UserInsts == { h \in Insts : h > 2 }

\* a handle sends a command with a fresh reply slot into the command queue;
\* the send fails at once when commander_rx is gone
HandleSend(h, c) ==
  /\ inst[h].st = "live"
  /\ UserOp
  /\ c.slot \in FreeSlots
  /\ \A s \in FreeSlots : c.slot <= s
  /\ \/ ~CommanderOpen
     \/ Len(commander) < CommanderCap
  /\ IF CommanderOpen
       THEN /\ Accept(c)
            /\ reply' = [reply EXCEPT ![c.slot] = "pending"]
       ELSE /\ reply' = [reply EXCEPT ![c.slot] = "dropped"]
            /\ UNCHANGED << commander, accepted >>
  /\ UNCHANGED << cancel, config_watch, strict, stream_request, camera_watch,
                  newPc, ctlPc, fwdReq, camPc, attemptCfg, liveConns,
                  streamPc, inst, shutPc, supDropped, updateRes, subRes,
                  served, attemptLatest, stream_config, overflow_checks,
                  client_rx, client_open, media >>

\* request a new Session Handle
HandleRequestInstance(h) ==
  /\ HandleBudget
  /\ \E s \in Slots : HandleSend(h, Instance(s))

\* request_subscription(track)
HandleRequestStream(h, t) ==
  \E s \in Slots : HandleSend(h, Stream(t, s))

\* the requester stops waiting and drops the receiving half of its oneshot
HandleGiveUp(s) ==
  /\ s > 2
  /\ reply[s] = "pending"
  /\ UserOp
  /\ reply' = [reply EXCEPT ![s] = "abandoned"]
  /\ UNCHANGED << cancel, config_watch, strict, commander, stream_request,
                  camera_watch, newPc, ctlPc, fwdReq, camPc, attemptCfg,
                  liveConns, streamPc, inst, shutPc, supDropped, updateRes,
                  subRes, accepted, served, attemptLatest, stream_config,
                  overflow_checks, client_rx, client_open, media >>

\* cancelled() is awaited on a handle
HandleAwaitCancelled(h) ==
  /\ inst[h].st = "live"
  /\ UserOp
  /\ inst' = [inst EXCEPT ![h].st = "awaiting"]
  /\ UNCHANGED << cancel, config_watch, strict, commander, stream_request,
                  camera_watch, newPc, ctlPc, fwdReq, camPc, attemptCfg,
                  liveConns, streamPc, reply, shutPc, supDropped, updateRes,
                  subRes, accepted, served, attemptLatest, stream_config,
                  overflow_checks, client_rx, client_open, media >>

\* the await resolves once the session's cancellation signal has fired
HandleCancelledResolves(h) ==
  /\ inst[h].st = "awaiting"
  /\ cancel
  /\ inst' = [inst EXCEPT ![h].st = "resolved"]
  /\ UNCHANGED << cancel, config_watch, strict, commander, stream_request,
                  camera_watch, newPc, ctlPc, fwdReq, camPc, attemptCfg,
                  liveConns, streamPc, reply, shutPc, supDropped, ops,
                  updateRes, subRes, accepted, served, attemptLatest,
                  stream_config, overflow_checks, client_rx, client_open,
                  media >>

\* the caller drops its handle
HandleDrop(h) ==
  /\ inst[h].st \in {"live", "resolved"}
  /\ UserOp
  /\ inst' = [inst EXCEPT ![h].st = "dropped"]
  /\ UNCHANGED << cancel, config_watch, strict, commander, stream_request,
                  camera_watch, newPc, ctlPc, fwdReq, camPc, attemptCfg,
                  liveConns, streamPc, reply, shutPc, supDropped, updateRes,
                  subRes, accepted, served, attemptLatest, stream_config,
                  overflow_checks, client_rx, client_open, media >>

(* ---------------------------- specification ---------------------------- *)
Next ==
  \/ NewSpawnControl
  \/ NewSpawnCam
  \/ NewSendInstance
  \/ NewAwaitInstance
  \/ NewSubscribe
  \/ NewAwaitSubscribe
  \/ NewSpawnStream
  \/ CtlCancelled
  \/ CtlHangUp
  \/ CtlHangUpReturn
  \/ CtlInstance
  \/ CtlStream
  \/ CtlForward
  \/ CamStartConnect
  \/ CamConnectOk
  \/ CamConnectFail
  \/ CamError
  \/ CamConfigChanged
  \/ CamCancelled
  \/ StreamServe
  \/ StreamCancelled
  \/ Subscribe
  \/ \E c \in Configs : UpdateConfig(c)
  \/ \E c \in Callers : ShutdownCall(c)
  \/ \E c \in Callers : ShutdownSend(c)
  \/ \E c \in Callers : ShutdownReturn(c)
  \/ DropNeoCam
  \/ \E h \in UserInsts : HandleRequestInstance(h)
  \/ \E h \in UserInsts, t \in Tracks : HandleRequestStream(h, t)
  \/ \E s \in Slots : HandleGiveUp(s)
  \/ \E h \in UserInsts : HandleAwaitCancelled(h)
  \/ \E h \in UserInsts : HandleCancelledResolves(h)
  \/ \E h \in UserInsts : HandleDrop(h)

Spec == Init /\ [][Next]_vars

\* the steps of each task
NewStep ==
  \/ NewSpawnControl \/ NewSpawnCam \/ NewSendInstance \/ NewAwaitInstance
  \/ NewSubscribe \/ NewAwaitSubscribe \/ NewSpawnStream

CtlStep ==
  \/ CtlCancelled \/ CtlHangUp \/ CtlHangUpReturn
  \/ CtlInstance \/ CtlStream \/ CtlForward

\* the steps the lifecycle worker takes by itself (an error of the camera is
\* not one of them)
CamStep ==
  \/ CamStartConnect \/ CamConnectOk \/ CamConnectFail
  \/ CamConfigChanged \/ CamCancelled

StreamStep == StreamServe \/ StreamCancelled

\* the runtime keeps polling every spawned task and every pending future that
\* can make progress; nothing is assumed of the users, of the camera's errors
\* or of the outcome of a handshake.  A send suspended on a full queue is
\* served in arrival order by the queue's semaphore, so it cannot be overtaken
\* for ever.
Fairness ==
  /\ WF_vars(NewStep)
  /\ WF_vars(CtlStep)
  /\ WF_vars(CamStep)
  /\ WF_vars(StreamStep)
  /\ SF_vars(\E c \in Callers : ShutdownSend(c))
  /\ WF_vars(\E c \in Callers : ShutdownReturn(c))
  /\ WF_vars(\E h \in UserInsts : HandleCancelledResolves(h))

LiveSpec == Init /\ [][Next]_vars /\ Fairness

\* NeoCamCommand::Instance when NeoInstance::new returns Err: the arm sends
\* whatever the constructor returned, so the requester receives the error
CtlInstanceErr ==
  /\ ctlPc = "recv"
  /\ commander # << >>
  /\ Dequeue(commander).cmd.type = "Instance"
  /\ LET s == Dequeue(commander).cmd.slot IN
       IF reply[s] = "pending"
         THEN reply' = [reply EXCEPT ![s] = "fulfilled"]
         ELSE UNCHANGED reply
  /\ commander' = Dequeue(commander).rest
  /\ served' = Dequeue(commander).no
  /\ UNCHANGED << cancel, config_watch, strict, stream_request, camera_watch,
                  newPc, ctlPc, fwdReq, camPc, attemptCfg, liveConns,
                  streamPc, inst, shutPc, supDropped, ops, updateRes, subRes,
                  accepted, attemptLatest, stream_config, overflow_checks,
                  client_rx, client_open, media >>

\* the program in an environment where building a handle may fail, the case
\* the second `?` of `instance_rx.await??` provides for
FaultNext == Next \/ CtlInstanceErr

FaultSpec == Init /\ [][FaultNext]_vars /\ Fairness

\* make_factory: the client channel is new and empty, the callback holds a
\* clone of the stream configuration and has not run
FactoryInit ==
  /\ NeoCamInit
  /\ config_watch.id = 1
  /\ stream_config \in StreamConfigs
  /\ overflow_checks \in BOOLEAN
  /\ client_rx = << >>
  /\ client_open = TRUE
  /\ media = NoMedia

\* the callback given to NeoMediaFactory::new_with_callback runs once for a
\* pipeline; blocking_send waits for room and fails once the receiver is gone
FactoryCallback ==
  /\ media.no < MaxBuilds
  /\ media.res # "Panic"
  /\ \E cleared, vidMade, audMade \in BOOLEAN :
       LET r == Pipeline(stream_config, cleared, vidMade, audMade) IN
         IF r.res # "Ok"
           THEN /\ media' = [no |-> media.no + 1, res |-> r.res, buffer |-> r.buffer]
                /\ UNCHANGED client_rx
           ELSE IF ~client_open
             THEN /\ media' = [no |-> media.no + 1, res |-> "Err",
                               buffer |-> r.buffer]
                  /\ UNCHANGED client_rx
             ELSE /\ Len(client_rx) < ClientCap
                  /\ client_rx' = Append(client_rx, r.data)
                  /\ media' = [no |-> media.no + 1, res |-> "Ok",
                               buffer |-> r.buffer]
  /\ UNCHANGED << cancel, config_watch, strict, commander, stream_request,
                  camera_watch, newPc, ctlPc, fwdReq, camPc, attemptCfg,
                  liveConns, streamPc, reply, inst, shutPc, supDropped, ops,
                  updateRes, subRes, accepted, served, attemptLatest,
                  stream_config, overflow_checks, client_open >>

\* the RTSP side takes the next ClientData from client_rx
ClientRecv ==
  /\ media.res # "Panic"
  /\ client_open
  /\ client_rx # << >>
  /\ client_rx' = Tail(client_rx)
  /\ UNCHANGED << cancel, config_watch, strict, commander, stream_request,
                  camera_watch, newPc, ctlPc, fwdReq, camPc, attemptCfg,
                  liveConns, streamPc, reply, inst, shutPc, supDropped, ops,
                  updateRes, subRes, accepted, served, attemptLatest,
                  stream_config, overflow_checks, client_open, media >>

\* the RTSP side drops client_rx, and what is buffered with it
ClientDrop ==
  /\ media.res # "Panic"
  /\ client_open
  /\ client_open' = FALSE
  /\ client_rx' = << >>
  /\ UNCHANGED << cancel, config_watch, strict, commander, stream_request,
                  camera_watch, newPc, ctlPc, fwdReq, camPc, attemptCfg,
                  liveConns, streamPc, reply, inst, shutPc, supDropped, ops,
                  updateRes, subRes, accepted, served, attemptLatest,
                  stream_config, overflow_checks, media >>

FactoryNext == FactoryCallback \/ ClientRecv \/ ClientDrop

FactorySpec == FactoryInit /\ [][FactoryNext]_vars

TypeOK ==
  /\ cancel \in BOOLEAN
  /\ Len(commander) <= CommanderCap
  /\ Len(stream_request) <= StreamCap
  /\ ops \in 0 .. MaxOps

(* ---------------------------- C1 --------------------------------------- *)
\* the handles that exist or have existed
Issued == { h \in Insts : inst[h].st # "none" }

\* C1: at most one connection object is alive in every reachable state, the
\* published reference is absent or names that one object, the
\* connection-state cell changes only in a step of the lifecycle worker, and
\* every handle holds the receiving side of the cell.
C1_SingleConnectionSingleWriter ==
  /\ [](/\ Len(liveConns) <= 1
        /\ camera_watch # Absent => liveConns = << camera_watch >>
        /\ \A h \in Issued : inst[h].ends.watch = "camera_watch_rx")
  /\ [][camera_watch' # camera_watch =>
         /\ camPc \in {"Connecting", "Connected"}
         /\ camPc' # camPc]_vars

\* a connection is published while two handles and a queued request exist
C1_Witness ==
  /\ camera_watch # Absent
  /\ Len(liveConns) = 1
  /\ Cardinality({ h \in Issued : inst[h].st = "live" }) >= 2
  /\ commander # << >>
  /\ updateRes.res = "Ok"

(* ---------------------------- C2 --------------------------------------- *)
Called(c) == shutPc[c] # "idle"

\* C2: whatever the number of shutdown() calls, once one has been made the
\* session ends, and stays, with the cancellation signal raised and the
\* control loop exited; a call made on the session in that state changes
\* neither (its command is not even accepted); and every cancelled() await
\* pending on a handle resolves: an await ends only by resolving, and from
\* some point on none is pending once shutdown() has been called.
C2_ShutdownIdempotent ==
  /\ [][(cancel /\ ctlPc = "done") =>
         /\ cancel' /\ ctlPc' = "done"
         /\ commander' = commander /\ accepted' = accepted]_vars
  /\ [][\A h \in UserInsts :
          inst[h].st = "awaiting" => inst'[h].st \in {"awaiting", "resolved"}]_vars
  /\ <>[]((\E c \in Callers : Called(c)) =>
            /\ cancel /\ ctlPc = "done"
            /\ \A h \in UserInsts : inst[h].st # "awaiting")

\* two shutdown() calls have returned and an await on a handle has resolved
C2_Witness ==
  /\ \A c \in {1, 2} : shutPc[c] = "returned"
  /\ \E h \in UserInsts : inst[h].st = "resolved"
  /\ ctlPc = "done"

(* ---------------------------- C3 --------------------------------------- *)
Returned(c) == shutPc[c] = "returned"

\* C3 as claimed: when a shutdown() call has returned, the cancellation
\* signal is raised and the control loop task has terminated.
C3_ReturnsAfterLoopExit ==
  \A c \in Callers : Returned(c) => cancel /\ ctlPc = "done"

\* C3 amended: when a shutdown() call has returned, the cancellation signal
\* is raised and the control loop has served its last command: it has
\* terminated or is leaving through the terminate arm, and no command is
\* served from then on.
C3_ReturnsAfterLastCommand ==
  /\ [](\A c \in Callers :
          Returned(c) => cancel /\ ctlPc \in {"hangup", "done"})
  /\ [][(\E c \in Callers : Returned(c)) => served' = served]_vars

\* a shutdown() call has returned while the control loop task is still on
\* its way out of the terminate arm, with a second caller waiting
C3_Witness ==
  /\ \E c \in Callers : Returned(c)
  /\ \E c \in Callers : shutPc[c] = "waiting"
  /\ ctlPc = "hangup"

(* ---------------------------- C4 --------------------------------------- *)
InCall(c) == shutPc[c] \in {"sending", "waiting"}

\* C4: every shutdown() call that has been entered eventually returns,
\* from every reachable state: a call ends only by returning, and from some
\* point on no call is in progress.
C4_ShutdownReturns ==
  /\ [][\A c \in Callers : InCall(c) => InCall(c)' \/ Returned(c)']_vars
  /\ <>[](\A c \in Callers : ~InCall(c))

\* a shutdown() call is suspended on the full command queue
C4_Witness ==
  /\ \E c \in Callers : shutPc[c] = "sending"
  /\ Len(commander) = CommanderCap
  /\ ~cancel

(* ---------------------------- C5 --------------------------------------- *)
\* the reply slots of the commands waiting in the command queue
QueuedSlots == SlotsOf(commander)

\* C5: the step that dequeues a terminate command raises the cancellation
\* signal and takes the loop to its exit; from there no command is served
\* and no request queued behind the terminate is answered; and when the
\* loop has exited every such request has its reply channel closed.
C5_TerminateStopsServing ==
  /\ [][(/\ served' # served
          /\ commander # << >>
          /\ Head(commander).cmd = HangUp) => cancel' /\ ctlPc' = "hangup"]_vars
  /\ [][ctlPc = "hangup" =>
         /\ served' = served
         /\ ctlPc' \in {"hangup", "done"}
         /\ \A s \in QueuedSlots : reply'[s] # "fulfilled"]_vars
  /\ [][(ctlPc = "hangup" /\ ctlPc' = "done") =>
         \A s \in QueuedSlots : reply'[s] \in {"dropped", "abandoned"}]_vars
  /\ [](ctlPc = "done" => commander = << >>)

\* the loop has left through the terminate arm and a request that was queued
\* behind the terminate has been dropped unserved
C5_Witness ==
  /\ ctlPc = "done"
  /\ ~supDropped
  /\ served < accepted
  /\ \E s \in Slots : s > 2 /\ reply[s] = "dropped"

(* ---------------------------- C6 --------------------------------------- *)
\* C6: the commands waiting in the queue carry consecutive arrival numbers
\* right after the one served last, and every step that serves a command
\* serves the one with the next arrival number: arrival order, no command
\* twice.
C6_FifoService ==
  /\ [](\A i \in 1 .. Len(commander) : commander[i].no = served + i)
  /\ [](served <= accepted)
  /\ [][served' # served => served' = served + 1]_vars

\* three commands have been served and two more wait in the queue
C6_Witness ==
  /\ served >= 3
  /\ Len(commander) >= 2

(* ---------------------------- C7 --------------------------------------- *)
\* C7: NeoCam::subscribe never returns an error, it can be called in every
\* state of a live session whatever the queue and the control loop are
\* doing, and all handles ever issued hold the same connection-state cell,
\* command queue and cancellation signal.
C7_SubscribeSucceeds ==
  /\ subRes # "Err"
  /\ \A h \in Issued : inst[h].ok
  /\ \A h, g \in Issued : inst[h].ends = inst[g].ends
  /\ (Usable /\ ~cancel /\ ops < MaxOps /\ HandleBudget) => ENABLED Subscribe

\* subscribe() has succeeded twice on a live session whose command queue is
\* full
C7_Witness ==
  /\ subRes = "Ok"
  /\ ~cancel
  /\ Len(commander) = CommanderCap
  /\ Cardinality({ h \in UserInsts : inst[h].st = "live" }) >= 2

(* ---------------------------- C8 --------------------------------------- *)
\* C8: the cancellation signal is raised only by the step that serves a
\* terminate command or by the step that drops the NeoCam; the control loop
\* exits only with the signal raised; and a step in which a handle is
\* dropped changes neither the signal, nor the control loop, nor the command
\* queue, nor any other handle.
C8_HandleDropIsInert ==
  /\ [][(~cancel /\ cancel') =>
         \/ ctlPc = "recv" /\ ctlPc' = "hangup"
         \/ ~supDropped /\ supDropped']_vars
  /\ [][(ctlPc # "done" /\ ctlPc' = "done") => cancel]_vars
  /\ [][\A h \in Insts :
          (inst[h].st # "dropped" /\ inst'[h].st = "dropped") =>
            /\ cancel' = cancel
            /\ ctlPc' = ctlPc
            /\ commander' = commander
            /\ \A g \in Insts \ {h} : inst'[g] = inst[g]]_vars

\* every handle given to a user has been dropped, one of them with its
\* request unanswered, and the session is live with its control loop running
C8_Witness ==
  /\ \E h \in UserInsts : inst[h].st = "dropped"
  /\ \A h \in UserInsts : inst[h].st \in {"none", "dropped"}
  /\ \E s \in Slots : reply[s] = "abandoned"
  /\ ~cancel
  /\ ctlPc = "recv"
  /\ commander = << >>

(* ---------------------------- C9 --------------------------------------- *)
\* a step of update_config: a user operation that touches nothing but the
\* configuration
IsUpdate ==
  /\ ops' # ops
  /\ inst' = inst /\ reply' = reply /\ shutPc' = shutPc
  /\ supDropped' = supDropped /\ commander' = commander

UpdateFailed == updateRes'.res = "Err" /\ config_watch' = config_watch
UpdateDone == updateRes'.res = "Ok" /\ config_watch'.id = updateRes'.arg

\* C9 as claimed: update_config fails, leaving the configuration as it was,
\* when called after a shutdown() has returned, and succeeds and replaces
\* the configuration on a session that is not cancelled.
C9_FailsAfterShutdown ==
  [][IsUpdate =>
      /\ (\E c \in Callers : Returned(c)) => UpdateFailed
      /\ ~cancel => UpdateDone]_vars

\* C9 amended: update_config fails, leaving the configuration as it was,
\* exactly when the lifecycle worker has exited and dropped its
\* configuration receiver; until then, also after shutdown() has returned,
\* it succeeds and replaces the configuration.
C9_FailsAfterWorkerExit ==
  [][IsUpdate => IF camPc = "Stopped" THEN UpdateFailed ELSE UpdateDone]_vars

\* update_config has failed on a session whose shutdown() has returned and
\* whose lifecycle worker has exited
C9_Witness ==
  /\ updateRes.res = "Err"
  /\ camPc = "Stopped"
  /\ \E c \in Callers : Returned(c)

(* ---------------------------- C10 -------------------------------------- *)
\* the worker is connecting or connected with the configuration now broadcast
UsesCurrent ==
  camPc \in {"Connecting", "Connected"} /\ attemptCfg = config_watch.id

\* C10: an attempt is made with the configuration passed last before it
\* began, the published connection is the one that attempt built, and a
\* worker connected under a configuration other than the one now broadcast
\* eventually, unless the session is cancelled, is connecting or connected
\* with the broadcast one (which, the live connection never being changed
\* in place, takes a tear down and a new attempt).
C10_ReconnectsWithLatest ==
  /\ [](camPc \in {"Connecting", "Connected"} => attemptCfg = attemptLatest)
  /\ [](camera_watch # Absent => camera_watch = attemptCfg)
  /\ (camPc = "Connected" /\ camera_watch # config_watch.id)
       ~> (cancel \/ UsesCurrent)

\* the worker is connected under a configuration that update_config put in
\* place of the one the session was created with
C10_Witness ==
  /\ camPc = "Connected"
  /\ updateRes.res = "Ok"
  /\ camera_watch = updateRes.arg
  /\ strict # config_watch.strict

(* ---------------------------- C11 -------------------------------------- *)
\* new() is past `instance_rx.await??`
HasFirstInstance == newPc \in {"subscribe", "awaitSub", "spawnStream", "done"}

\* C11: new() gets past its own Instance request, and so returns Ok, only
\* once the control loop has served that request and put a handle in its
\* reply slot; and the last step of new() never waits for the lifecycle
\* worker, so new() returns whatever the state of the connection.
C11_ReturnsAfterFirstHandle ==
  /\ HasFirstInstance => reply[1] = "fulfilled" /\ inst[1].ok /\ served >= 1
  /\ newPc = "spawnStream" => ENABLED NewSpawnStream

\* new() has returned Ok while no connection has been published
C11_Witness ==
  /\ newPc = "done"
  /\ reply[1] = "fulfilled"
  /\ camera_watch = Absent
  /\ camPc = "Disconnected"
  /\ ops = 0

(* ---------------------------- C12 -------------------------------------- *)
\* C12 as claimed: when the handshake never succeeds (no connection is ever
\* published, and the session is never cancelled), new() does not return a
\* NeoCam.
C12_FailsWhenUnreachable ==
  [](camera_watch = Absent /\ ~cancel) => [](newPc # "done")

\* C12 amended: new() never fails and always returns its NeoCam, whether or
\* not a handshake ever succeeds; failed attempts stay inside the lifecycle
\* worker, which new() only starts.
C12_ReturnsWithoutHandshake ==
  /\ [](newPc # "failed")
  /\ [][newPc' # newPc => camera_watch' = camera_watch /\ camPc' \in {camPc, "Disconnected"}]_vars
  /\ <>(newPc = "done")

\* new() has returned its NeoCam while the first handshake is still under way
C12_Witness ==
  /\ newPc = "done"
  /\ camPc = "Connecting"
  /\ camera_watch = Absent
  /\ liveConns = << >>
  /\ ops = 0

(* ---------------------------- C13 -------------------------------------- *)
\* C13: in every reachable state a snapshot read on any handle, whichever
\* way the handle was issued, returns the reference published last; all
\* handles read the same value, and the cell holds that one value only (no
\* history from which an older value could be read after a newer one).
C13_HandlesSeeLatest ==
  /\ \A h \in Issued : GetConnection(h) = camera_watch
  /\ \A h, g \in Issued : GetConnection(h) = GetConnection(g)
  /\ camera_watch \in {Absent} \cup { c.id : c \in Configs }

\* a handle from subscribe() and a handle requested through it both read the
\* connection published under the configuration that replaced the first one
C13_Witness ==
  /\ ops = 3
  /\ subRes = "Ok"
  /\ \E s \in Slots : s > 2 /\ reply[s] = "fulfilled"
  /\ Cardinality({ h \in UserInsts : inst[h].st = "live" }) = 2
  /\ updateRes.res = "Ok"
  /\ strict # config_watch.strict
  /\ \A h \in UserInsts : inst[h].st = "live" => GetConnection(h) = config_watch.id

(* ---------------------------- C14 -------------------------------------- *)
\* a subscription request waits in the command queue
StreamQueued == \E i \in 1 .. Len(commander) : commander[i].cmd.type = "Stream"

\* C14: a request that is waiting for its reply ends up fulfilled, dropped
\* or given up by its requester, never back to waiting; and once shutdown()
\* has been called, from some point on no request is left waiting, whether
\* it sat in the command queue or in the fan-out worker's queue.
C14_QueuedRequestsEnd ==
  /\ [][\A s \in Slots :
          reply[s] \in {"fulfilled", "dropped", "abandoned"} => reply'[s] = reply[s]]_vars
  /\ <>[]((\E c \in Callers : Called(c)) => \A s \in Slots : reply[s] # "pending")

\* shutdown() has been called while one subscription request waits in the
\* command queue and another in the fan-out worker's queue
C14_Witness ==
  /\ \E c \in Callers : InCall(c)
  /\ ~cancel
  /\ StreamQueued
  /\ stream_request # << >>
  /\ \A s \in SlotsOf(commander) \cup SendersOf(stream_request) : reply[s] = "pending"

(* ---------------------------- C15 -------------------------------------- *)
\* C15: the cancellation signal never goes back from cancelled to live, and
\* once it is raised the control loop, the lifecycle worker and the fan-out
\* worker all end up exited, wherever each was suspended.
C15_CancelCascades ==
  /\ [][cancel => cancel']_vars
  /\ <>[](cancel => ctlPc = "done" /\ camPc = "Stopped" /\ streamPc = "stopped")

\* the NeoCam is dropped while the control loop is suspended on the full
\* fan-out queue and the lifecycle worker is in a connection attempt
C15_Witness ==
  /\ cancel
  /\ supDropped
  /\ ctlPc = "fwd"
  /\ camPc = "Connecting"
  /\ streamPc = "run"

(* ---------------------------- C16 -------------------------------------- *)
\* the control loop serves a Stream command in this step
ServesStream ==
  /\ served' # served
  /\ commander # << >>
  /\ Head(commander).cmd.type = "Stream"

\* C16: a step that puts a request into the fan-out worker's queue appends
\* the StreamRequest of the Stream command being served (same track, same
\* reply slot) behind the ones already there; and a step that serves a
\* Stream command while that queue is unreachable closes the reply slot of
\* that command only: no other reply slot changes and the loop stays ready
\* for the next command.
C16_ForwardFailsSilently ==
  /\ [][stream_request' # stream_request /\ Len(stream_request') > Len(stream_request) =>
         /\ stream_request' = Append(stream_request,
              IF ctlPc = "fwd" THEN fwdReq ELSE StreamRequest(Head(commander).cmd))
         /\ ctlPc = "recv" => ServesStream]_vars
  /\ [][(ServesStream /\ ~StreamRxOpen) =>
         LET s == Head(commander).cmd.slot IN
           /\ reply'[s] \in {"dropped", "abandoned"}
           /\ \A o \in Slots \ {s} : reply'[o] = reply[o]
           /\ ctlPc' = "recv"]_vars

(* ---------------------------- C17 -------------------------------------- *)
\* the control loop serves an Instance command in this step
ServesInstance ==
  /\ served' # served
  /\ commander # << >>
  /\ Head(commander).cmd.type = "Instance"

\* C17: a step that serves an Instance command leaves the loop ready for the
\* next command and takes exactly that command off the queue; if the
\* requester still waits, its reply slot is filled, once, with a new handle
\* made of the receiver of the connection-state cell, the sender of the
\* command queue and the session's cancellation signal; if the requester
\* has given up, nothing else changes; no other reply slot is touched.
C17_InstanceNeverFails ==
  [][ServesInstance =>
      LET s == Head(commander).cmd.slot IN
        /\ ctlPc = "recv" /\ ctlPc' = "recv"
        /\ commander' = Tail(commander)
        /\ \A o \in Slots \ {s} : reply'[o] = reply[o]
        /\ IF reply[s] = "pending"
             THEN /\ reply'[s] = "fulfilled"
                  /\ \E h \in Insts :
                       /\ inst[h].st = "none"
                       /\ inst'[h] = [ok |-> TRUE, st |-> "live",
                                      ends |-> [watch |-> "camera_watch_rx",
                                                commander |-> "commander_tx",
                                                cancel |-> "cancel"]]
                       /\ \A g \in Insts \ {h} : inst'[g] = inst[g]
             ELSE reply'[s] = reply[s] /\ inst' = inst]_vars

\* a request whose requester had given up has been passed over and the
\* request sent after it has been answered with a handle
C17_Witness ==
  /\ ctlPc = "recv"
  /\ ~cancel
  /\ commander = << >>
  /\ stream_request = << >>
  /\ reply[3] = "abandoned"
  /\ reply[4] = "fulfilled"
  /\ Cardinality({ h \in UserInsts : inst[h].st = "live" }) = 2

(* ---------------------------- C18 -------------------------------------- *)
\* C18: the command queue never holds more commands than its capacity, and
\* while the loop lives those are exactly the accepted commands not served
\* yet; a caller is suspended only by a full queue, its suspension changes
\* neither the queue nor the loop, and it can go on as soon as the queue has
\* room or is closed; and a loop with a full queue is always able to take
\* the next command, suspended callers or not.
C18_BoundedQueue ==
  /\ [](/\ Len(commander) <= CommanderCap
        /\ CommanderCap <= CommanderCapacity
        /\ CommanderOpen => accepted - served = Len(commander))
  /\ [][\A c \in Callers :
          (shutPc[c] # "sending" /\ shutPc'[c] = "sending") =>
            /\ Len(commander) = CommanderCap
            /\ commander' = commander /\ ctlPc' = ctlPc /\ served' = served]_vars
  /\ [](\A c \in Callers :
          (shutPc[c] = "sending" /\ (Len(commander) < CommanderCap \/ ~CommanderOpen))
            => ENABLED ShutdownSend(c))
  /\ [](ctlPc = "recv" /\ Len(commander) = CommanderCap => ENABLED CtlStep)

\* a caller is suspended on the full queue while the loop is about to take
\* a subscription request off it
C18_Witness ==
  /\ \E c \in Callers : shutPc[c] = "sending"
  /\ Len(commander) = CommanderCap
  /\ ctlPc = "recv"
  /\ Head(commander).cmd.type = "Stream"
  /\ accepted - served = CommanderCap

(* ---------------------------- C19 -------------------------------------- *)
\* C19: the lifecycle worker runs only once the control loop task has been
\* started, the fan-out worker only once both have been started and new()
\* holds its first handle; the first command the loop ever serves is the
\* Instance request of new(); and until the fan-out worker runs the
\* receiving end of its queue is kept open and nothing is taken off that
\* queue, so a request forwarded early would wait there.
C19_StartupOrder ==
  /\ [](camPc # "notStarted" => ctlPc # "notStarted")
  /\ [](streamPc # "notStarted" =>
          /\ ctlPc # "notStarted" /\ camPc # "notStarted"
          /\ reply[1] = "fulfilled" /\ inst[1].ok)
  /\ [][(served = 0 /\ served' # served) =>
         Head(commander).cmd = Instance(1) /\ served' = 1]_vars
  /\ [](streamPc = "notStarted" => StreamRxOpen)
  /\ [][Len(stream_request') < Len(stream_request) => streamPc = "run"]_vars

\* new() holds its first handle, both other tasks run, and the fan-out
\* worker has not been started yet
C19_Witness ==
  /\ newPc = "spawnStream"
  /\ streamPc = "notStarted"
  /\ ctlPc = "recv"
  /\ camPc = "Connected"
  /\ served = 2
  /\ inst[1].st = "live"

(* ---------------------------- C20 -------------------------------------- *)
\* the control loop task ends in this step
LoopExits == ctlPc # "done" /\ ctlPc' = "done"

StillQueued(q, r) == Len(q) <= Len(r) /\ SubSeq(r, 1, Len(q)) = q

\* C21: while a forward is suspended on the full fan-out queue no command is
\* served and the commands behind it stay queued unless the loop exits;
\* with the cancellation signal raised the loop can leave through its
\* cancelled branch, the forward never completes while the fan-out queue is
\* still full, and the loop does not stay suspended for ever.
C21_ForwardBlocksUntilCancel ==
  /\ [][ctlPc = "fwd" =>
         /\ served' = served
         /\ ctlPc' # "done" => StillQueued(commander, commander')]_vars
  /\ [](ctlPc = "fwd" /\ cancel => ENABLED CtlCancelled)
  /\ [][ctlPc = "fwd" /\ cancel /\ Len(stream_request) = StreamCap =>
         /\ ctlPc' \in {"fwd", "done"}
         /\ Len(stream_request') <= Len(stream_request)
         /\ reply'[fwdReq.sender] # "fulfilled"]_vars
  /\ <>[](cancel => ctlPc # "fwd")

\* the NeoCam was dropped while the second of two subscription requests was
\* waiting to be forwarded: the loop is gone, the fan-out worker still runs
\* with the first request in its queue, the second was never forwarded
C21_Witness ==
  /\ ctlPc = "done"
  /\ supDropped
  /\ streamPc = "run"
  /\ Len(stream_request) = StreamCap
  /\ served = 4
  /\ reply[4] = "dropped"
  /\ 4 \notin SendersOf(stream_request)

(* ---------------------------- C22 -------------------------------------- *)
\* C22: when new() fails after `me` was built the cancellation signal is
\* raised in the step that returns the error and stays raised, and the
\* control loop and the lifecycle worker, the tasks started by then, end.
C22_FailureCancelsSession ==
  /\ [][newPc # "failed" /\ newPc' = "failed" => cancel']_vars
  /\ [](newPc = "failed" => cancel /\ streamPc = "notStarted")
  /\ <>[](newPc = "failed" => ctlPc = "done" /\ camPc = "Stopped")

\* new() got its first handle, failed to derive the fan-out worker's handle
\* from it, and both tasks it had started have ended
C22_Witness ==
  /\ newPc = "failed"
  /\ reply[1] = "fulfilled" /\ inst[1].ok
  /\ reply[2] = "fulfilled" /\ ~inst[2].ok
  /\ ctlPc = "done"
  /\ camPc = "Stopped"

(* ---------------------------- C23 -------------------------------------- *)
\* the subscription requests the control loop has built and not yet handed
\* over to the fan-out worker's task
Forwarded ==
  { stream_request[i] : i \in 1 .. Len(stream_request) }
    \cup (IF ctlPc = "fwd" THEN {fwdReq} ELSE {})

\* C23: until update_config is first called the flag the control loop holds
\* is the strict value of the configuration new() was given; no step, and so
\* no update_config, changes it; and every forwarded request carries it.
C23_StrictIsCreationTime ==
  /\ [](updateRes.res = "none" => strict = config_watch.strict)
  /\ [][strict' = strict]_vars
  /\ [][IsUpdate => Forwarded' = Forwarded]_vars
  /\ [](\A r \in Forwarded : r.strict = strict)

\* update_config has put a configuration with the other strict value in
\* place, and a request built with the creation-time flag is still on its way
\* into the fan-out worker's queue behind one that is already there
C23_Witness ==
  /\ updateRes.res = "Ok"
  /\ config_watch.strict # strict
  /\ ctlPc = "fwd"
  /\ fwdReq.strict = strict
  /\ stream_request # << >>
  /\ ~cancel

(* ---------------------------- C24 -------------------------------------- *)
\* the callback has just run once more
Built == media'.no = media.no + 1
HasVideo == stream_config.vid_format \in {"H264", "H265"}

\* C24: a run of the callback that succeeds appends exactly one ClientData to
\* the client channel and a run that fails appends none; the ClientData has
\* a video source exactly when the video format is H264 or H265, and an
\* audio source only together with a video source.
C24_OneClientDataPerPipeline ==
  /\ [][Built /\ media'.res = "Ok" =>
          /\ Len(client_rx') = Len(client_rx) + 1
          /\ SubSeq(client_rx', 1, Len(client_rx)) = client_rx
          /\ client_rx'[Len(client_rx')].vid = HasVideo
          /\ client_rx'[Len(client_rx')].aud => HasVideo]_vars
  /\ [][Built /\ media'.res # "Ok" => client_rx' = client_rx]_vars
  /\ [][~Built => Len(client_rx') <= Len(client_rx)]_vars
  /\ [](\A i \in 1 .. Len(client_rx) :
          /\ client_rx[i].vid = HasVideo
          /\ client_rx[i].aud => client_rx[i].vid)

\* a pipeline was built for a configuration without video but with AAC
\* audio: the one ClientData in the channel has neither source
C24_Witness ==
  /\ stream_config.vid_format = "None"
  /\ stream_config.aud_format = "Aac"
  /\ media.res = "Ok"
  /\ client_rx = << ClientData(FALSE, FALSE) >>

(* ---------------------------- C25 -------------------------------------- *)
\* max(bitrate * 15 / 8, 4 MiB) over the naturals
ExactBufferSize(bitrate) == U32Max(Div8(Times15(bitrate)), FourMiB)

\* C25: buffer_size never panics; the size a pipeline was built with is
\* max(bitrate * 15 / 8, 4 MiB) computed without overflow, is at least
\* 4 MiB, and is at least the size computed for any smaller bitrate.
C25_ExactAndMonotone ==
  /\ media.res # "Panic"
  /\ media.buffer # << >> =>
       /\ media.buffer = ExactBufferSize(stream_config.bitrate)
       /\ U32Le(FourMiB, media.buffer)
       /\ \A b \in Bitrates :
            U32Le(b, stream_config.bitrate)
              => U32Le(ExactBufferSize(b), media.buffer)
====
